---- MODULE Spec2Model ----
(***************************************************************************)
(* The HTTP engine of testangel-engine-http: the request builder slot, the *)
(* last-outcome cache and the evidence formatter (src/src/lib.rs and       *)
(* src/src/http_evidence.rs).  Every instruction of the engine is one      *)
(* action; the host invokes instructions one at a time.                    *)
(*                                                                         *)
(* Option<T> is modelled as a sequence of length at most one: <<>> is None *)
(* and <<x>> is Some(x).                                                   *)
(***************************************************************************)
EXTENDS Naturals, Sequences, FiniteSets, TLC

(* ----------------------------- bounds -------------------------------- *)

\* Headers the host adds to one pending request.
MaxHeaders == 2

\* Evidence records the host's sink collects in one run.
MaxEmitted == 2

\* Headers the host adds to one pending request when only GET requests are
\* prepared and sent (DeepSpec).
MaxDeepHeaders == 3

(* ------------------------- enumerated inputs ------------------------- *)

Urls == {"http://example.com/search?q=test", "http://example.com", "not a url", "file:///tmp/x"}

\* (key, value) arguments of add_header.
Pairs == {<<"X-Test", "1">>, <<"x-test", "2">>, <<"Accept", "text/html">>, <<"bad name", "1">>}

\* (key, value) arguments of add_header in DeepSpec.
DeepPairs ==
  {<<"X-Test", "1">>, <<"x-test", "2">>, <<"Accept", "text/html">>, <<"Host", "other.example">>}

Bodies == {"hi", ""}

\* Keys of last_request_header.
QueryKeys == {"Content-Type", "x-bin", "X-Missing"}

\* A header value holding a byte outside visible ASCII (the bytes 63 61 66 E9).
BinValue == "caf<E9>"

Placeholder == "<unable to decode response body>"

HeaderPlaceholder == "<header data cannot be displayed>"

(* -------------------- the transport's data types --------------------- *)

\* HeaderName::try_from: a header name is a token; it is stored lowercased.
ValidHeaderName(key) == key # "bad name"

LowerName(key) ==
  CASE key = "X-Test" -> "x-test"
    [] key = "Accept" -> "accept"
    [] key = "Host" -> "host"
    [] key = "Content-Type" -> "content-type"
    [] key = "X-Missing" -> "x-missing"
    [] OTHER -> key

\* A rendering that accepts every byte.
ToStr_Lossy(value) == <<value>>

\* HeaderValue::to_str: fails on a byte outside visible ASCII.
ToStr(value) == IF value = BinValue THEN <<>> ELSE <<value>>

RECURSIVE LastIndexOf(_, _, _)
LastIndexOf(headers, name, i) ==
  IF i = 0 THEN 0
  ELSE IF headers[i].name = name THEN i
  ELSE LastIndexOf(headers, name, i - 1)

InsertAt(s, i, e) == SubSeq(s, 1, i) \o <<e>> \o SubSeq(s, i + 1, Len(s))

\* A header map that iterates its entries in the order of the append calls.
HeaderMapAppend_CallOrder(headers, name, value) ==
  Append(headers, [name |-> name, value |-> value])

\* HeaderMap::append: a header map iterates its names in the order of their
\* first insertion, the values of one name together in insertion order.
HeaderMapAppend(headers, name, value) ==
  InsertAt(headers,
           IF LastIndexOf(headers, name, Len(headers)) = 0
             THEN Len(headers)
             ELSE LastIndexOf(headers, name, Len(headers)),
           [name |-> name, value |-> value])

HeaderMapContainsKey(headers, name) == \E i \in 1..Len(headers) : headers[i].name = name

RECURSIVE FirstIndexOf(_, _, _)
FirstIndexOf(headers, name, i) ==
  IF i > Len(headers) THEN 0
  ELSE IF headers[i].name = name THEN i
  ELSE FirstIndexOf(headers, name, i + 1)

\* A lookup that compares names byte for byte.
HeaderMapGet_CaseSensitive(headers, key) ==
  IF ~ValidHeaderName(key) \/ FirstIndexOf(headers, key, 1) = 0
    THEN <<>>
    ELSE <<headers[FirstIndexOf(headers, key, 1)].value>>

\* HeaderMap::get(&key): the first value of the name, matched case-insensitively;
\* a key that is no header name matches nothing.
HeaderMapGet(headers, key) ==
  IF ~ValidHeaderName(key) \/ FirstIndexOf(headers, LowerName(key), 1) = 0
    THEN <<>>
    ELSE <<headers[FirstIndexOf(headers, LowerName(key), 1)].value>>

\* Url::parse followed by IntoUrl: a URL that does not parse, or has no host,
\* is an error; the others have a normalised text, a path, a query and a host.
IntoUrl(url) ==
  CASE url = "http://example.com/search?q=test" ->
         <<[text |-> "http://example.com/search?q=test", path |-> "/search",
            query |-> <<"q=test">>, host |-> <<"example.com">>]>>
    [] url = "http://example.com" ->
         <<[text |-> "http://example.com/", path |-> "/",
            query |-> <<>>, host |-> <<"example.com">>]>>
    [] OTHER -> <<>>

\* StatusCode's Display: the code and its canonical reason.
StatusText(status) ==
  CASE status = 200 -> "200 OK"
    [] status = 404 -> "404 Not Found"

\* What the transport can answer: a status, a header map and a body that is
\* UTF-8 text, bytes that are not UTF-8, or cannot be read at all.
Statuses == {200, 404}

ResponseHeaders ==
  { <<[name |-> "content-type", value |-> "text/plain"]>>,
    <<[name |-> "x-bin", value |-> BinValue],
      [name |-> "content-type", value |-> "text/html"]>> }

ResponseBodies ==
  { [kind |-> "utf8", text |-> "ok"],
    [kind |-> "utf8", text |-> ""],
    [kind |-> "invalid", text |-> "o<FF>k"],
    [kind |-> "unreadable", text |-> ""] }

Responses ==
  [version : {"HTTP/1.1"}, status : Statuses, headers : ResponseHeaders, body : ResponseBodies]

(* ------------------------------ state -------------------------------- *)

VARIABLES
  builder,       \* Option<RequestBuilder>: the request being prepared
  last_status,   \* Option<StatusCode>
  last_headers,  \* Option<HeaderMap>
  call,          \* the instruction the host invoked last, and what it returned
  evidence,      \* the evidence records that invocation pushed
  transport,     \* the request that invocation handed to the transport
  emitted,       \* evidence records the host has collected so far
  succeeded,     \* non-dry-run sends that returned a body so far
  lastOk,        \* the response of the most recent such send
  since,         \* what add_header and add_body were given since the last prepare
  received       \* the response the transport gave that invocation

vars == <<builder, last_status, last_headers, call, evidence, transport,
          emitted, succeeded, lastOk, since, received>>

BuilderErr == [ok |-> FALSE]

\* What the host sees of one invocation, and what the invocation found in the
\* builder slot when it began: <<>> for an empty slot, <<n>> for a pending
\* request holding n headers.
Found == IF builder = <<>> THEN <<>>
         ELSE IF builder[1].ok THEN <<Len(builder[1].headers)>> ELSE <<0>>

Invocation(op, args, dry, result, value) ==
  [op |-> op, args |-> args, dry |-> dry, result |-> result, value |-> value,
   found |-> Found]

\* The record of what the host gave since the last prepare: that prepare's URL
\* and what was handed to a builder that still held a request: the headers (as
\* a set and in the order of the calls), the bodies and the body given last.
NoSince == [headers |-> {}, bodies |-> {}, given |-> <<>>, last |-> <<>>, url |-> ""]

Init ==
  /\ builder = <<>>
  /\ last_status = <<>>
  /\ last_headers = <<>>
  /\ call = [op |-> "new", args |-> <<>>, dry |-> FALSE, result |-> "Ok",
             value |-> <<>>, found |-> <<>>]
  /\ evidence = <<>>
  /\ transport = <<>>
  /\ emitted = 0
  /\ succeeded = 0
  /\ lastOk = <<>>
  /\ since = NoSince
  /\ received = <<>>

(* ------------------------ evidence formatter ------------------------- *)

HeaderLine(h) ==
  IF ToStr(h.value) # <<>>
    THEN h.name \o ": " \o ToStr(h.value)[1] \o "\r\n"
    ELSE h.name \o ": " \o HeaderPlaceholder \o "\r\n"

RECURSIVE Concat(_)
Concat(chunks) == IF chunks = <<>> THEN "" ELSE Head(chunks) \o Concat(Tail(chunks))

\* The chunks headers_to_evidence pushes, one per header in iteration order.
HeaderLines(headers) == [i \in 1..Len(headers) |-> HeaderLine(headers[i])]

headers_to_evidence(headers) == Concat(HeaderLines(headers))

\* A formatter that puts the synthesized accept and host before the
\* request's own headers.
EvidenceHeaders_DefaultsFirst(req) ==
  (IF ~HeaderMapContainsKey(req.headers, "accept")
     THEN <<[name |-> "accept", value |-> "*/*"]>> ELSE <<>>)
  \o (IF ~HeaderMapContainsKey(req.headers, "host") /\ req.url.host # <<>>
        THEN <<[name |-> "host", value |-> req.url.host[1]]>> ELSE <<>>)
  \o req.headers

\* A formatter that appends its accept whatever the request holds.
EvidenceHeaders_AlwaysAccept(req) ==
  LET h1 == HeaderMapAppend(req.headers, "accept", "*/*")
  IN  IF ~HeaderMapContainsKey(h1, "host") /\ req.url.host # <<>>
        THEN HeaderMapAppend(h1, "host", req.url.host[1])
        ELSE h1

\* The header map req_to_evidence formats: the request's, with accept and
\* host appended when absent.
EvidenceHeaders(req) ==
  LET h1 == IF ~HeaderMapContainsKey(req.headers, "accept")
              THEN HeaderMapAppend(req.headers, "accept", "*/*")
              ELSE req.headers
  IN  IF ~HeaderMapContainsKey(h1, "host") /\ req.url.host # <<>>
        THEN HeaderMapAppend(h1, "host", req.url.host[1])
        ELSE h1

RequestLine(req) ==
  req.method \o " " \o req.url.path
    \o (IF req.url.query # <<>> THEN "?" \o req.url.query[1] ELSE "")
    \o " " \o "HTTP/1.1" \o "\r\n"

RequestBodyPart(req) == IF req.body # <<>> THEN "\r\n" \o req.body[1] ELSE ""

req_to_evidence(req) ==
  RequestLine(req) \o headers_to_evidence(EvidenceHeaders(req)) \o RequestBodyPart(req)

\* String::from_utf8_lossy of the bytes of a body: every invalid sequence
\* becomes U+FFFD.
LossyText(body) == IF body.text = "o<FF>k" THEN "o<U+FFFD>k" ELSE body.text

\* A decoding that falls back to the lossy text.
ResponseBody_Lossy(res) ==
  IF res.body.kind # "unreadable"
    THEN IF res.body.kind = "utf8" THEN res.body.text ELSE LossyText(res.body)
    ELSE "<unable to decode response body>"

\* The text res_to_evidence stores through its body parameter.
ResponseBody(res) ==
  IF res.body.kind # "unreadable"
    THEN IF res.body.kind = "utf8" THEN res.body.text ELSE Placeholder
    ELSE Placeholder

\* A formatter that writes the body section whatever the body text is.
res_to_evidence_AlwaysBody(res) ==
  res.version \o " " \o StatusText(res.status) \o "\r\n"
    \o headers_to_evidence(res.headers)
    \o "\r\n" \o ResponseBody(res)

res_to_evidence(res) ==
  res.version \o " " \o StatusText(res.status) \o "\r\n"
    \o headers_to_evidence(res.headers)
    \o (IF ResponseBody(res) = "" THEN "" ELSE "\r\n" \o ResponseBody(res))

(* --------------------------- instructions ---------------------------- *)

Quiet == /\ evidence' = <<>>
         /\ transport' = <<>>
         /\ received' = <<>>
         /\ UNCHANGED <<emitted, succeeded, lastOk>>

\* A prepare that changes the method and URL of the request already pending.
NewBuilder_KeepsPending(method, url) ==
  IF IntoUrl(url) = <<>>
    THEN [ok |-> FALSE]
    ELSE IF builder # <<>> /\ builder[1].ok
      THEN [builder[1] EXCEPT !.method = method, !.url = IntoUrl(url)[1]]
      ELSE [ok |-> TRUE, method |-> method, url |-> IntoUrl(url)[1],
            headers |-> <<>>, body |-> <<>>]

\* Client::get .. Client::delete: the builder holds the request, or the
\* error of a URL that IntoUrl refuses.
NewBuilder(method, url) ==
  IF IntoUrl(url) = <<>>
    THEN BuilderErr
    ELSE [ok |-> TRUE, method |-> method, url |-> IntoUrl(url)[1],
          headers |-> <<>>, body |-> <<>>]

\* A prepare that also forgets the last outcome.
Prepare_ResetsOutcome(op, method, url) ==
  /\ builder' = <<NewBuilder(method, url)>>
  /\ call' = Invocation(op, <<url>>, FALSE, "Ok", <<>>)
  /\ since' = [NoSince EXCEPT !.url = url]
  /\ last_status' = <<>>
  /\ last_headers' = <<>>
  /\ Quiet

\* A prepare that validates the URL and fails when it does not parse.
Prepare_RejectsBadUrl(op, method, url) ==
  /\ builder' = IF IntoUrl(url) = <<>> THEN <<>> ELSE <<NewBuilder(method, url)>>
  /\ call' = Invocation(op, <<url>>, FALSE,
                        IF IntoUrl(url) = <<>> THEN "RequestError" ELSE "Ok", <<>>)
  /\ since' = [NoSince EXCEPT !.url = url]
  /\ UNCHANGED <<last_status, last_headers>>
  /\ Quiet

Prepare(op, method, url) ==
  /\ builder' = <<NewBuilder(method, url)>>
  /\ call' = Invocation(op, <<url>>, FALSE, "Ok", <<>>)
  /\ since' = [NoSince EXCEPT !.url = url]
  /\ UNCHANGED <<last_status, last_headers>>
  /\ Quiet

prepare_get == \E url \in Urls : Prepare("prepare_get", "GET", url)

prepare_head == \E url \in Urls : Prepare("prepare_head", "HEAD", url)

prepare_post == \E url \in Urls : Prepare("prepare_post", "POST", url)

prepare_put == \E url \in Urls : Prepare("prepare_put", "PUT", url)

prepare_patch == \E url \in Urls : Prepare("prepare_patch", "PATCH", url)

prepare_delete == \E url \in Urls : Prepare("prepare_delete", "DELETE", url)

\* A header call that replaces the values the name already has.
BuilderHeader_Overwrites(b, key, value) ==
  IF ~b.ok THEN b
  ELSE IF ~ValidHeaderName(key) THEN [ok |-> FALSE]
  ELSE [b EXCEPT !.headers =
          Append(SelectSeq(b.headers, LAMBDA h : h.name # LowerName(key)),
                 [name |-> LowerName(key), value |-> value])]

\* RequestBuilder::header: appends to a request that is still good; a key
\* that is no header name turns the builder into an error.
BuilderHeader(b, key, value) ==
  IF ~b.ok THEN b
  ELSE IF ~ValidHeaderName(key) THEN BuilderErr
  ELSE [b EXCEPT !.headers = HeaderMapAppend(b.headers, LowerName(key), value)]

\* A body call that appends to the body the request already has.
BuilderBody_Appends(b, body) ==
  IF ~b.ok THEN b
  ELSE [b EXCEPT !.body = IF @ = <<>> THEN <<body>> ELSE <<@[1] \o body>>]

\* RequestBuilder::body
BuilderBody(b, body) == IF ~b.ok THEN b ELSE [b EXCEPT !.body = <<body>>]

HeaderCount(b) == IF b.ok THEN Len(b.headers) ELSE 0

\* An add_header that is silently dropped when nothing was prepared.
add_header_Lenient ==
  \E p \in Pairs :
    /\ IF builder # <<>>
         THEN /\ Len(since.given) < MaxHeaders
              /\ builder' = <<BuilderHeader(builder[1], p[1], p[2])>>
              /\ since' = IF builder[1].ok
                            THEN [since EXCEPT !.headers = @ \cup {p},
                                               !.given = Append(@, p)]
                            ELSE since
         ELSE /\ builder' = <<>>
              /\ since' = since
    /\ call' = Invocation("add_header", p, FALSE, "Ok", <<>>)
    /\ UNCHANGED <<last_status, last_headers>>
    /\ Quiet

\* add_header over the pairs the host may give, at most max of them to one
\* pending request.
AddHeader(pairs, max) ==
  \E p \in pairs :
    /\ IF builder # <<>>
         THEN /\ Len(since.given) < max
              /\ builder' = <<BuilderHeader(builder[1], p[1], p[2])>>
              /\ call' = Invocation("add_header", p, FALSE, "Ok", <<>>)
              /\ since' = IF builder[1].ok
                            THEN [since EXCEPT !.headers = @ \cup {p},
                                               !.given = Append(@, p)]
                            ELSE since
         ELSE /\ builder' = <<>>
              /\ call' = Invocation("add_header", p, FALSE, "NoPendingRequest", <<>>)
              /\ since' = since
    /\ UNCHANGED <<last_status, last_headers>>
    /\ Quiet

add_header == AddHeader(Pairs, MaxHeaders)

add_header_deep == AddHeader(DeepPairs, MaxDeepHeaders)

add_body ==
  \E body \in Bodies :
    /\ IF builder # <<>>
         THEN /\ builder' = <<BuilderBody(builder[1], body)>>
              /\ call' = Invocation("add_body", <<body>>, FALSE, "Ok", <<>>)
              /\ since' = IF builder[1].ok
                            THEN [since EXCEPT !.bodies = @ \cup {body}, !.last = <<body>>]
                            ELSE since
         ELSE /\ builder' = <<>>
              /\ call' = Invocation("add_body", <<body>>, FALSE, "NoPendingRequest", <<>>)
              /\ since' = since
    /\ UNCHANGED <<last_status, last_headers>>
    /\ Quiet

Label(req) == "Request to " \o req.url.text

EvidenceRecord(req, res) ==
  [label |-> Label(req), request |-> req_to_evidence(req), response |-> res_to_evidence(res)]

\* A dry run that looks at the builder slot before it returns.
SendDryRun_ChecksPending ==
  /\ call' = Invocation("send", <<>>, TRUE,
                        IF builder = <<>> THEN "NoPendingRequest" ELSE "Ok", <<>>)
  /\ builder' = <<>>
  /\ UNCHANGED <<last_status, last_headers, since>>
  /\ Quiet

\* A dry run that still records the request it would have sent.
SendDryRun_Emits ==
  /\ call' = Invocation("send", <<>>, TRUE, "Ok", <<>>)
  /\ evidence' = IF builder # <<>> /\ builder[1].ok
                   THEN <<[label |-> Label(builder[1]),
                           request |-> req_to_evidence(builder[1]), response |-> ""]>>
                   ELSE <<>>
  /\ emitted' = emitted + Len(evidence')
  /\ transport' = <<>>
  /\ received' = <<>>
  /\ UNCHANGED <<builder, last_status, last_headers, since, succeeded, lastOk>>

\* send, line 117: the dry run returns before the builder slot is read.
SendDryRun ==
  /\ call' = Invocation("send", <<>>, TRUE, "Ok", <<>>)
  /\ UNCHANGED <<builder, last_status, last_headers, since>>
  /\ Quiet

SendNoPending ==
  /\ builder = <<>>
  /\ builder' = <<>>
  /\ call' = Invocation("send", <<>>, FALSE, "NoPendingRequest", <<>>)
  /\ UNCHANGED <<last_status, last_headers, since>>
  /\ Quiet

\* A send that records the outcome of a request it could not build.
SendBuildFails_StoresStatus ==
  /\ builder # <<>>
  /\ ~builder[1].ok
  /\ builder' = <<>>
  /\ call' = Invocation("send", <<>>, FALSE, "RequestError", <<>>)
  /\ last_status' = <<>>
  /\ last_headers' = <<>>
  /\ UNCHANGED since
  /\ Quiet

\* send, lines 121-123: build_split gives the builder's error and req? returns it.
SendBuildFails ==
  /\ builder # <<>>
  /\ ~builder[1].ok
  /\ builder' = <<>>
  /\ call' = Invocation("send", <<>>, FALSE, "RequestError", <<>>)
  /\ UNCHANGED <<last_status, last_headers, since>>
  /\ Quiet

\* A send that puts the builder back when the transport fails.
SendTransportFails_Retryable ==
  /\ builder # <<>>
  /\ builder[1].ok
  /\ builder' = builder
  /\ transport' = <<builder[1]>>
  /\ call' = Invocation("send", <<>>, FALSE, "RequestError", <<>>)
  /\ evidence' = <<>>
  /\ received' = <<>>
  /\ UNCHANGED <<last_status, last_headers, since, emitted, succeeded, lastOk>>

\* send, lines 121-126: the request was built and cl.execute(req)? fails.
SendTransportFails ==
  /\ builder # <<>>
  /\ builder[1].ok
  /\ builder' = <<>>
  /\ transport' = <<builder[1]>>
  /\ call' = Invocation("send", <<>>, FALSE, "RequestError", <<>>)
  /\ evidence' = <<>>
  /\ received' = <<>>
  /\ UNCHANGED <<last_status, last_headers, since, emitted, succeeded, lastOk>>

\* A send that stores the status and forgets the headers.
SendSucceeds_StatusOnly ==
  \E res \in Responses :
    /\ builder # <<>>
    /\ builder[1].ok
    /\ emitted < MaxEmitted
    /\ builder' = <<>>
    /\ transport' = <<builder[1]>>
    /\ received' = <<res>>
    /\ last_status' = <<res.status>>
    /\ last_headers' = last_headers
    /\ evidence' = <<EvidenceRecord(builder[1], res)>>
    /\ emitted' = emitted + 1
    /\ succeeded' = succeeded + 1
    /\ lastOk' = <<[status |-> res.status, headers |-> res.headers]>>
    /\ call' = Invocation("send", <<>>, FALSE, "Ok", <<ResponseBody(res)>>)
    /\ UNCHANGED since

\* send, lines 121-136: the transport answers; the outcome is stored, the
\* evidence record pushed and the body returned.
SendSucceeds ==
  \E res \in Responses :
    /\ builder # <<>>
    /\ builder[1].ok
    /\ emitted < MaxEmitted
    /\ builder' = <<>>
    /\ transport' = <<builder[1]>>
    /\ received' = <<res>>
    /\ last_status' = <<res.status>>
    /\ last_headers' = <<res.headers>>
    /\ evidence' = <<EvidenceRecord(builder[1], res)>>
    /\ emitted' = emitted + 1
    /\ succeeded' = succeeded + 1
    /\ lastOk' = <<[status |-> res.status, headers |-> res.headers]>>
    /\ call' = Invocation("send", <<>>, FALSE, "Ok", <<ResponseBody(res)>>)
    /\ UNCHANGED since

send == SendDryRun \/ SendNoPending \/ SendBuildFails \/ SendTransportFails \/ SendSucceeds

LastStatusResult ==
  IF last_status # <<>>
    THEN Invocation("last_status", <<>>, FALSE, "Ok", <<last_status[1]>>)
    ELSE Invocation("last_status", <<>>, FALSE, "NoPriorRequest", <<>>)

last_status_ ==
  /\ call' = LastStatusResult
  /\ UNCHANGED <<builder, last_status, last_headers, since>>
  /\ Quiet

\* A query that answers the empty string when no request was ever made.
LastRequestHeaderResult_EmptyWhenNone(key) ==
  IF last_headers # <<>> /\ HeaderMapGet(last_headers[1], key) # <<>>
    THEN IF ToStr(HeaderMapGet(last_headers[1], key)[1]) # <<>>
           THEN Invocation("last_request_header", <<key>>, FALSE, "Ok",
                           ToStr(HeaderMapGet(last_headers[1], key)[1]))
           ELSE Invocation("last_request_header", <<key>>, FALSE,
                           "HeaderDecodeError", <<>>)
    ELSE Invocation("last_request_header", <<key>>, FALSE, "Ok", <<"">>)

LastRequestHeaderResult(key) ==
  IF last_headers # <<>>
    THEN IF HeaderMapGet(last_headers[1], key) # <<>>
           THEN IF ToStr(HeaderMapGet(last_headers[1], key)[1]) # <<>>
                  THEN Invocation("last_request_header", <<key>>, FALSE, "Ok",
                                  ToStr(HeaderMapGet(last_headers[1], key)[1]))
                  ELSE Invocation("last_request_header", <<key>>, FALSE,
                                  "HeaderDecodeError", <<>>)
           ELSE Invocation("last_request_header", <<key>>, FALSE, "Ok", <<"">>)
    ELSE Invocation("last_request_header", <<key>>, FALSE, "NoPriorRequest", <<>>)

\* A query that takes the headers out of the cache and puts them back only
\* when it succeeds.
last_request_header_Takes ==
  \E key \in QueryKeys :
    /\ call' = LastRequestHeaderResult(key)
    /\ last_headers' = IF call'.result = "HeaderDecodeError" THEN <<>> ELSE last_headers
    /\ UNCHANGED <<builder, last_status, since>>
    /\ Quiet

last_request_header ==
  \E key \in QueryKeys :
    /\ call' = LastRequestHeaderResult(key)
    /\ UNCHANGED <<builder, last_status, last_headers, since>>
    /\ Quiet

Next ==
  \/ prepare_get
  \/ prepare_head
  \/ prepare_post
  \/ prepare_put
  \/ prepare_patch
  \/ prepare_delete
  \/ add_header
  \/ add_body
  \/ send
  \/ last_status_
  \/ last_request_header

Spec == Init /\ [][Next]_vars

\* The engine when the host prepares GET requests only, gives them up to
\* MaxDeepHeaders headers out of DeepPairs and sends them.
NextDeep ==
  \/ prepare_get
  \/ add_header_deep
  \/ send

DeepSpec == Init /\ [][NextDeep]_vars

(* ------------------------------ claims ------------------------------- *)

RealSend(c) == c.op = "send" /\ ~c.dry

NeedsPending(c) == c.op \in {"add_header", "add_body"} \/ RealSend(c)

\* C1: every non-dry-run send that finds a pending request empties the builder
\* slot, whether it returns the body or a RequestError; the add_header,
\* add_body or non-dry-run send invoked next fails with NoPendingRequest.
C1_SendConsumesPending ==
  [][ /\ (RealSend(call') /\ builder # <<>>) =>
           /\ builder' = <<>>
           /\ call'.result \in {"Ok", "RequestError"}
      /\ (RealSend(call) /\ call.found # <<>> /\ NeedsPending(call')) =>
           /\ call'.result = "NoPendingRequest"
           /\ builder' = <<>>
    ]_vars

\* A non-dry-run send found a request it could not build, and the slot is empty.
C1_Witness ==
  /\ RealSend(call)
  /\ call.found # <<>>
  /\ call.result = "RequestError"
  /\ transport = <<>>
  /\ builder = <<>>

\* C2: a non-dry-run send that found a pending request and did not return a
\* body returns a RequestError, pushes no evidence record and leaves
\* last_status and last_headers as they were.
C2_FailedSendLeavesOutcome ==
  [][ (RealSend(call') /\ builder # <<>> /\ call'.result # "Ok") =>
        /\ call'.result = "RequestError"
        /\ evidence' = <<>>
        /\ emitted' = emitted
        /\ last_status' = last_status
        /\ last_headers' = last_headers
    ]_vars

\* The transport failed on a built request after an earlier send had succeeded.
C2_Witness ==
  /\ RealSend(call)
  /\ call.result = "RequestError"
  /\ transport # <<>>
  /\ last_status # <<>>
  /\ last_headers # <<>>
  /\ evidence = <<>>

\* C3: a dry-run send returns success in every state, hands nothing to the
\* transport, pushes no evidence record and leaves the builder slot and the
\* last outcome unchanged; the non-dry-run send that follows it hands the
\* transport the request the slot held before the dry run.
C3_DryRunIsNoOp ==
  [][ /\ (call'.op = "send" /\ call'.dry) =>
           /\ call'.result = "Ok"
           /\ transport' = <<>>
           /\ evidence' = <<>>
           /\ emitted' = emitted
           /\ builder' = builder
           /\ last_status' = last_status
           /\ last_headers' = last_headers
      /\ (call.op = "send" /\ call.dry /\ RealSend(call') /\ call.found # <<>>) =>
           /\ builder # <<>>
           /\ IF builder[1].ok
                THEN transport' = builder /\ call'.result \in {"Ok", "RequestError"}
                ELSE transport' = <<>> /\ call'.result = "RequestError"
    ]_vars

\* A dry-run send has run on a pending request that holds headers and a body.
C3_Witness ==
  /\ call.op = "send"
  /\ call.dry
  /\ builder # <<>>
  /\ builder[1].ok
  /\ Len(builder[1].headers) = MaxHeaders
  /\ builder[1].body # <<>>

\* C4 as stated: with the builder slot empty, add_header, add_body and every
\* send fail with NoPendingRequest and change nothing.
C4_AsStated ==
  [][ (builder = <<>> /\ call'.op \in {"add_header", "add_body", "send"}) =>
        /\ call'.result = "NoPendingRequest"
        /\ builder' = <<>>
        /\ last_status' = last_status
        /\ last_headers' = last_headers
    ]_vars

\* C4, amended: with the builder slot empty, add_header, add_body and every
\* non-dry-run send fail with NoPendingRequest, leave the slot empty and leave
\* last_status and last_headers unchanged.
C4_NoPendingFails ==
  [][ (builder = <<>> /\ NeedsPending(call')) =>
        /\ call'.result = "NoPendingRequest"
        /\ builder' = <<>>
        /\ last_status' = last_status
        /\ last_headers' = last_headers
        /\ evidence' = <<>>
        /\ transport' = <<>>
    ]_vars

\* add_header failed on the slot a successful send had emptied.
C4_Witness ==
  /\ call.op = "add_header"
  /\ call.found = <<>>
  /\ call.result = "NoPendingRequest"
  /\ builder = <<>>
  /\ last_status # <<>>

SuccessfulSend(c) == RealSend(c) /\ c.result = "Ok"

\* C5: the host has collected as many evidence records as non-dry-run sends
\* have succeeded; an invocation pushes one record when it is a successful
\* non-dry-run send and none otherwise.
C5_OneRecordPerSuccess ==
  /\ emitted = succeeded
  /\ Len(evidence) = (IF SuccessfulSend(call) THEN 1 ELSE 0)

\* Two sends have succeeded and a third, failing one has just pushed nothing.
C5_Witness ==
  /\ succeeded = 2
  /\ emitted = 2
  /\ RealSend(call)
  /\ call.result = "RequestError"
  /\ call.found # <<>>
  /\ evidence = <<>>

\* C6: last_status is set exactly when last_headers is set, in every state,
\* and no step unsets either once it is set.
C6_OutcomeSetTogether ==
  /\ []((last_status = <<>>) <=> (last_headers = <<>>))
  /\ [][ /\ (last_status # <<>>) => (last_status' # <<>>)
         /\ (last_headers # <<>>) => (last_headers' # <<>>)
       ]_vars

\* Both fields are set and a later send has failed.
C6_Witness ==
  /\ last_status # <<>>
  /\ last_headers # <<>>
  /\ RealSend(call)
  /\ call.result = "RequestError"
  /\ transport = <<>>

\* C7: a step that changes last_status or last_headers is a successful
\* non-dry-run send, and it leaves both fields holding the status and the
\* headers of the one response it received.
C7_OutcomeOnlyBySend ==
  [][ (last_status' # last_status \/ last_headers' # last_headers) =>
        /\ SuccessfulSend(call')
        /\ lastOk' # <<>>
        /\ last_status' = <<lastOk'[1].status>>
        /\ last_headers' = <<lastOk'[1].headers>>
    ]_vars

\* A second successful send has overwritten the outcome of the first.
C7_Witness ==
  /\ SuccessfulSend(call)
  /\ succeeded = 2
  /\ last_status = <<404>>
  /\ Len(last_headers[1]) = 2

\* The header of H that k names, names compared case-insensitively.
Matches(H, key) == {i \in 1..Len(H) : LowerName(H[i].name) = LowerName(key)}

FirstMatch(H, key) == H[CHOOSE i \in Matches(H, key) : \A j \in Matches(H, key) : i <= j]

\* C8 as stated: after a successful send with status s and headers H,
\* last_status returns s and last_request_header(k) returns the value of k in
\* H, or the empty string when H has no header k.
C8_AsStated ==
  lastOk # <<>> =>
    /\ (call.op = "last_status") =>
          (call.result = "Ok" /\ call.value = <<lastOk[1].status>>)
    /\ (call.op = "last_request_header") =>
          /\ call.result = "Ok"
          /\ call.value = IF Matches(lastOk[1].headers, call.args[1]) = {}
                            THEN <<"">>
                            ELSE <<FirstMatch(lastOk[1].headers, call.args[1]).value>>

\* C8, amended: after a successful send with status s and headers H,
\* last_status returns s; last_request_header(k) returns the empty string when
\* H has no header k, the value of k when that value is visible ASCII, and
\* fails with HeaderDecodeError when it is not.  The answers are those of the
\* most recent successful send.
C8_LastOutcomeQueries ==
  lastOk # <<>> =>
    /\ (call.op = "last_status") =>
          (call.result = "Ok" /\ call.value = <<lastOk[1].status>>)
    /\ (call.op = "last_request_header") =>
          IF Matches(lastOk[1].headers, call.args[1]) = {}
            THEN call.result = "Ok" /\ call.value = <<"">>
            ELSE IF FirstMatch(lastOk[1].headers, call.args[1]).value = BinValue
              THEN call.result = "HeaderDecodeError" /\ call.value = <<>>
              ELSE /\ call.result = "Ok"
                   /\ call.value = <<FirstMatch(lastOk[1].headers, call.args[1]).value>>

\* "Content-Type" was asked of the headers of the second successful send,
\* after a later prepare, and the stored content-type came back.
C8_Witness ==
  /\ succeeded = 2
  /\ call.op = "last_request_header"
  /\ call.args = <<"Content-Type">>
  /\ call.result = "Ok"
  /\ call.value = <<"text/html">>
  /\ builder # <<>>

\* C9: last_status and last_request_header fail with NoPriorRequest exactly
\* when no non-dry-run send has succeeded so far.
C9_NoPriorRequest ==
  call.op \in {"last_status", "last_request_header"} =>
    ((call.result = "NoPriorRequest") <=> (succeeded = 0))

\* last_request_header failed before any send succeeded, a request pending.
C9_Witness ==
  /\ call.op = "last_request_header"
  /\ call.result = "NoPriorRequest"
  /\ succeeded = 0
  /\ builder # <<>>
  /\ since.headers # {}

MethodOf(op) ==
  CASE op = "prepare_get" -> "GET"
    [] op = "prepare_head" -> "HEAD"
    [] op = "prepare_post" -> "POST"
    [] op = "prepare_put" -> "PUT"
    [] op = "prepare_patch" -> "PATCH"
    [] op = "prepare_delete" -> "DELETE"

PrepareOps ==
  {"prepare_get", "prepare_head", "prepare_post", "prepare_put", "prepare_patch",
   "prepare_delete"}

\* The evidence line of a header as add_header was given it.
GivenLine(p) == LowerName(p[1]) \o ": " \o p[2] \o "\r\n"

SynthesizedLines == {"accept: */*\r\n", "host: example.com\r\n"}

Count(s, Test(_)) == Cardinality({i \in 1..Len(s) : Test(s[i])})

\* C11: a pending request that still builds holds one header entry for every
\* add_header call made since the last prepare, each given pair as often as it
\* was given; add_header leaves the method, the URL and the body alone; and
\* the request evidence of a successful send shows one line for each call, so
\* two lines for a key given twice.
C11_AddHeaderAppends ==
  /\ []((builder # <<>> /\ builder[1].ok) =>
          /\ Len(builder[1].headers) = Len(since.given)
          /\ \A p \in since.headers :
               Count(builder[1].headers,
                     LAMBDA h : h = [name |-> LowerName(p[1]), value |-> p[2]])
                 = Count(since.given, LAMBDA g : g = p))
  /\ [](SuccessfulSend(call) =>
          LET req == transport[1]
              lines == HeaderLines(EvidenceHeaders(req))
          IN  /\ Len(req.headers) = Len(since.given)
              /\ evidence[1].request =
                   RequestLine(req) \o Concat(lines) \o RequestBodyPart(req)
              /\ \A p \in since.headers :
                   Count(lines, LAMBDA l : l = GivenLine(p))
                     = Count(since.given, LAMBDA g : g = p))
  /\ [][ (call'.op = "add_header" /\ builder # <<>> /\ builder'[1].ok) =>
            /\ builder'[1].method = builder[1].method
            /\ builder'[1].url = builder[1].url
            /\ builder'[1].body = builder[1].body
            /\ Len(builder'[1].headers) = Len(builder[1].headers) + 1
        ]_vars

\* A request given the same key twice, and a body, has been sent with success.
C11_Witness ==
  /\ SuccessfulSend(call)
  /\ since.given = << <<"X-Test", "1">>, <<"x-test", "2">> >>
  /\ transport[1].body = <<"hi">>
  /\ Len(transport[1].headers) = 2

\* C12: add_body replaces the body of the pending request and leaves its
\* method, URL and headers alone; the request evidence of a successful send
\* ends with "\r\n" and the body given last, and ends with its last header
\* line when no body was given since the last prepare.
C12_AddBodyLastWins ==
  /\ [](SuccessfulSend(call) =>
          LET req == transport[1]
          IN  evidence[1].request =
                RequestLine(req) \o headers_to_evidence(EvidenceHeaders(req))
                  \o (IF since.last = <<>> THEN "" ELSE "\r\n" \o since.last[1]))
  /\ [][ (call'.op = "add_body" /\ builder # <<>> /\ builder[1].ok) =>
            /\ call'.result = "Ok"
            /\ builder' = <<[builder[1] EXCEPT !.body = <<call'.args[1]>>]>>
        ]_vars

\* A request given two bodies, "hi" last, has been sent with success.
C12_Witness ==
  /\ SuccessfulSend(call)
  /\ since.bodies = {"hi", ""}
  /\ since.last = <<"hi">>
  /\ transport[1].body = <<"hi">>

ResponseHead(res) ==
  res.version \o " " \o StatusText(res.status) \o "\r\n"
    \o Concat([i \in 1..Len(res.headers) |->
                 res.headers[i].name \o ": "
                   \o (IF res.headers[i].value = BinValue
                         THEN "<header data cannot be displayed>"
                         ELSE res.headers[i].value)
                   \o "\r\n"])

\* C13 as stated: a send that receives a body that is not valid UTF-8
\* succeeds, and returns and shows the lossy decoding of the bytes; the
\* placeholder is used only for a body that cannot be read.
C13_AsStated ==
  received # <<>> =>
    /\ call.result = "Ok"
    /\ received[1].body.kind = "invalid" =>
          /\ call.value = <<LossyText(received[1].body)>>
          /\ evidence[1].response =
               ResponseHead(received[1]) \o "\r\n" \o LossyText(received[1].body)
    /\ call.value = <<"<unable to decode response body>">> =>
          received[1].body.kind = "unreadable"

\* C13, amended: a send that receives a body that is not valid UTF-8
\* succeeds, and returns and shows the placeholder
\* "<unable to decode response body>", as it does for a body that cannot be
\* read; a body that is valid UTF-8 is returned and shown as it is.
C13_UndecodableBodyPlaceholder ==
  received # <<>> =>
    /\ call.result = "Ok"
    /\ received[1].body.kind \in {"invalid", "unreadable"} =>
          /\ call.value = <<"<unable to decode response body>">>
          /\ evidence[1].response =
               ResponseHead(received[1]) \o "\r\n" \o "<unable to decode response body>"
    /\ received[1].body.kind = "utf8" => call.value = <<received[1].body.text>>

\* A send received a body that is not valid UTF-8.
C13_Witness ==
  /\ SuccessfulSend(call)
  /\ received # <<>>
  /\ received[1].body.kind = "invalid"
  /\ Len(evidence) = 1

\* prepare-GET("http://example.com/search?q=test"), add_header("X-Test", "1"),
\* send, with no body, and the send succeeded.
SearchExample ==
  /\ SuccessfulSend(call)
  /\ transport[1].method = "GET"
  /\ since.url = "http://example.com/search?q=test"
  /\ since.given = << <<"X-Test", "1">> >>
  /\ since.last = <<>>

\* C14 as stated: the request evidence of the search example is the request
\* line, then accept, host and x-test, in that order.
C14_AsStated ==
  SearchExample =>
    evidence[1].request =
      "GET /search?q=test HTTP/1.1\r\naccept: */*\r\nhost: example.com\r\nx-test: 1\r\n"

\* C14, amended: the request evidence of the search example is the request
\* line, then x-test, then the synthesized accept and host, and nothing after
\* the last header line.
C14_SearchExampleEvidence ==
  SearchExample =>
    evidence[1].request =
      "GET /search?q=test HTTP/1.1\r\nx-test: 1\r\naccept: */*\r\nhost: example.com\r\n"

\* The search example has been sent and its evidence pushed.
C14_Witness ==
  /\ SearchExample
  /\ Len(evidence) = 1
  /\ evidence[1].label = "Request to http://example.com/search?q=test"

\* C15: an invocation that fails leaves last_status and last_headers unchanged
\* and leaves the builder slot unchanged, except that a non-dry-run send
\* failing with RequestError empties the slot; in every state a prepare of a
\* good URL is possible, and in the state right after such a prepare a send
\* can succeed (while the run may still collect evidence,
\* emitted < MaxEmitted).
C15_FailuresLeaveEngineUsable ==
  /\ [][ call'.result # "Ok" =>
            /\ last_status' = last_status
            /\ last_headers' = last_headers
            /\ emitted' = emitted
            /\ IF RealSend(call') /\ call'.result = "RequestError"
                 THEN builder # <<>> /\ builder' = <<>>
                 ELSE builder' = builder
        ]_vars
  /\ [](ENABLED Prepare("prepare_get", "GET", "http://example.com"))
  /\ []((/\ call.op \in PrepareOps
         /\ IntoUrl(call.args[1]) # <<>>
         /\ emitted < MaxEmitted) => ENABLED SendSucceeds)

\* A query failed on an undecodable header while a request was pending, and
\* the request and the outcome are still there.
C15_Witness ==
  /\ call.op = "last_request_header"
  /\ call.result = "HeaderDecodeError"
  /\ builder # <<>>
  /\ builder[1].ok
  /\ last_status # <<>>
  /\ last_headers # <<>>
  /\ emitted < MaxEmitted

GivenLines(given) == [i \in 1..Len(given) |-> GivenLine(given[i])]

\* The accept and host lines req_to_evidence adds for a request to
\* example.com whose caller gave the headers in given.
DefaultLines(given) ==
  (IF \A i \in 1..Len(given) : LowerName(given[i][1]) # "accept"
     THEN <<"accept: */*\r\n">> ELSE <<>>)
  \o (IF \A i \in 1..Len(given) : LowerName(given[i][1]) # "host"
        THEN <<"host: example.com\r\n">> ELSE <<>>)

\* The given headers, names in the order of their first appearance and the
\* values of one name together in the order given.
RECURSIVE Grouped(_)
Grouped(given) ==
  IF given = <<>> THEN <<>>
  ELSE LET name == LowerName(given[1][1])
       IN  SelectSeq(given, LAMBDA p : LowerName(p[1]) = name)
             \o Grouped(SelectSeq(given, LAMBDA p : LowerName(p[1]) # name))

\* The request evidence of the pending request sent last, were its header
\* lines in the order lines.
RequestTextWith(lines) ==
  RequestLine(transport[1]) \o Concat(lines)
    \o Concat(DefaultLines(since.given)) \o RequestBodyPart(transport[1])

\* No name was given again after a different name.
NamesTogether(given) ==
  \A i, j \in 1..Len(given) :
    (i < j /\ LowerName(given[i][1]) = LowerName(given[j][1]))
      => \A k \in i..j : LowerName(given[k][1]) = LowerName(given[i][1])

\* C16 as stated: the header lines of the request evidence are the lines of
\* the add_header calls in call order (followed by the synthesized lines).
C16_AsStated ==
  SuccessfulSend(call) =>
    evidence[1].request = RequestTextWith(GivenLines(since.given))

\* C16: the header lines of the request evidence are the lines of the
\* add_header calls made since the last prepare, the names in the order of
\* their first add_header call and the values of one name together in call
\* order (a name added again after a different name is shown next to its
\* earlier values), followed by the synthesized lines; this is the call order
\* whenever no name was added again after a different name.
C16_HeaderLinesGroupedByName ==
  SuccessfulSend(call) =>
    /\ evidence[1].request = RequestTextWith(GivenLines(Grouped(since.given)))
    /\ NamesTogether(since.given) =>
         (evidence[1].request = RequestTextWith(GivenLines(since.given)))

\* A request was sent whose caller added a name, a different name, and the
\* first name again, with a value different from the first.
C16_Witness ==
  /\ SuccessfulSend(call)
  /\ Len(since.given) = 3
  /\ LowerName(since.given[1][1]) = LowerName(since.given[3][1])
  /\ LowerName(since.given[1][1]) # LowerName(since.given[2][1])
  /\ since.given[1][2] # since.given[3][2]

\* The header entries a sequence of given pairs makes, in the order given.
Entries(given) ==
  [i \in 1..Len(given) |-> [name |-> LowerName(given[i][1]), value |-> given[i][2]]]

\* The pairs of given whose name is name, compared case-insensitively.
Named(given, name) == SelectSeq(given, LAMBDA p : LowerName(p[1]) = name)

\* The header lines of name that the evidence is to show: the caller's when
\* the caller gave any, else the one synthesized with value default.
ShownFor(given, name, default) ==
  IF Named(given, name) = <<>>
    THEN <<[name |-> name, value |-> default]>>
    ELSE Entries(Named(given, name))

\* C17: the request evidence of a successful send is the text of a header
\* list that holds an accept entry and a host entry: the caller's entries of
\* that name, unchanged and once each, when the caller added any, and else
\* the single entry "*/*" or the URL's host; every other entry is the
\* caller's; and the request handed to the transport holds the caller's
\* entries only.
C17_DefaultsOnlyInEvidence ==
  SuccessfulSend(call) =>
    LET req == transport[1]
        shown == EvidenceHeaders(req)
    IN  /\ evidence[1].request =
             RequestLine(req) \o Concat(HeaderLines(shown)) \o RequestBodyPart(req)
        /\ SelectSeq(shown, LAMBDA h : h.name = "accept")
             = ShownFor(since.given, "accept", "*/*")
        /\ SelectSeq(shown, LAMBDA h : h.name = "host")
             = ShownFor(since.given, "host", req.url.host[1])
        /\ SelectSeq(shown, LAMBDA h : h.name \notin {"accept", "host"})
             = SelectSeq(Entries(Grouped(since.given)),
                         LAMBDA h : h.name \notin {"accept", "host"})
        /\ Len(shown) >= 2
        /\ req.headers = Entries(Grouped(since.given))
        /\ Len(req.headers) = Len(since.given)

\* A request was sent whose caller gave an Accept of their own and no Host.
C17_Witness ==
  /\ SuccessfulSend(call)
  /\ Named(since.given, "accept") # <<>>
  /\ Named(since.given, "host") = <<>>
  /\ Len(since.given) = 2
  /\ Len(EvidenceHeaders(transport[1])) = 3
  /\ Len(transport[1].headers) = 2

\* C18: a successful send returns a text, the body of the response as
\* decoded, and the response evidence is the status line and the header lines
\* of the response received, followed by nothing when the returned text is
\* empty and by "\r\n" and the returned text otherwise.
C18_ReturnedBodyIsEvidenceBody ==
  SuccessfulSend(call) =>
    /\ Len(call.value) = 1
    /\ Len(received) = 1
    /\ (received[1].body.kind = "utf8") => (call.value[1] = received[1].body.text)
    /\ evidence[1].response =
         ResponseHead(received[1])
           \o (IF call.value[1] = "" THEN "" ELSE "\r\n" \o call.value[1])

\* A send has returned the empty text of a response with an empty body.
C18_Witness ==
  /\ SuccessfulSend(call)
  /\ call.value = <<"">>
  /\ received[1].body = [kind |-> "utf8", text |-> ""]
  /\ evidence[1].response = ResponseHead(received[1])

HasUndecodable(headers) == \E i \in 1..Len(headers) : headers[i].value = BinValue

\* C19: a send that receives a header whose value is not visible ASCII
\* succeeds, shows the header's name followed by the placeholder in the
\* response evidence, and stores the status and the headers received; with
\* such headers stored, last_request_header for that header fails with
\* HeaderDecodeError and changes nothing, last_status answers the stored
\* status, and last_request_header for another key answers that header's
\* value, or the empty text when the header is absent.
C19_UndecodableHeaderFailsOnlyItsQuery ==
  /\ [](( SuccessfulSend(call) /\ HasUndecodable(received[1].headers) ) =>
          /\ evidence[1].response =
               "HTTP/1.1 " \o StatusText(received[1].status) \o "\r\n"
                 \o "x-bin: <header data cannot be displayed>\r\n"
                 \o "content-type: text/html\r\n"
                 \o (IF call.value[1] = "" THEN "" ELSE "\r\n" \o call.value[1])
          /\ last_status = <<received[1].status>>
          /\ last_headers = <<received[1].headers>>)
  /\ [](( lastOk # <<>> /\ HasUndecodable(lastOk[1].headers) ) =>
          /\ (call.op = "last_status") =>
                (call.result = "Ok" /\ call.value = <<lastOk[1].status>>)
          /\ (call.op = "last_request_header" /\ call.args = <<"x-bin">>) =>
                (call.result = "HeaderDecodeError" /\ call.value = <<>>)
          /\ (call.op = "last_request_header" /\ call.args = <<"Content-Type">>) =>
                (call.result = "Ok" /\ call.value = <<"text/html">>)
          /\ (call.op = "last_request_header" /\ call.args = <<"X-Missing">>) =>
                (call.result = "Ok" /\ call.value = <<"">>))
  /\ [][ (call'.op = "last_request_header" /\ call'.result = "HeaderDecodeError") =>
            /\ UNCHANGED <<builder, last_status, last_headers, emitted, lastOk>>
            /\ evidence' = <<>>
        ]_vars

\* The query for the undecodable header has failed, and the outcome of the
\* send that received it is still stored.
C19_Witness ==
  /\ call.op = "last_request_header"
  /\ call.args = <<"x-bin">>
  /\ call.result = "HeaderDecodeError"
  /\ last_status # <<>>
  /\ last_headers # <<>>
  /\ HasUndecodable(last_headers[1])

\* A request is pending whose URL the transport library does not accept.
PendingBadUrl == builder # <<>> /\ IntoUrl(since.url) = <<>>

\* C20: a prepare with a URL that does not parse succeeds and leaves a
\* pending request; add_header, add_body and a dry-run send on it succeed and
\* leave it pending; the non-dry-run send on it fails with RequestError,
\* hands nothing to the transport, pushes no evidence, and empties the
\* builder slot.
C20_BadUrlRejectedAtSend ==
  /\ [][ (call'.op \in PrepareOps /\ IntoUrl(call'.args[1]) = <<>>) =>
            (call'.result = "Ok" /\ Len(builder') = 1)
        ]_vars
  /\ [][ (PendingBadUrl /\ (call'.op \in {"add_header", "add_body"} \/ (call'.op = "send" /\ call'.dry))) =>
            (call'.result = "Ok" /\ Len(builder') = 1 /\ IntoUrl(since'.url) = <<>>)
        ]_vars
  /\ [][ (PendingBadUrl /\ RealSend(call')) =>
            /\ call'.result = "RequestError"
            /\ transport' = <<>>
            /\ received' = <<>>
            /\ evidence' = <<>>
            /\ emitted' = emitted
            /\ builder' = <<>>
            /\ UNCHANGED <<last_status, last_headers>>
        ]_vars

\* The send of a request prepared with "not a url" has failed before the
\* transport was called.
C20_Witness ==
  /\ RealSend(call)
  /\ call.result = "RequestError"
  /\ call.found # <<>>
  /\ since.url = "not a url"
  /\ transport = <<>>
  /\ evidence = <<>>
  /\ builder = <<>>

====
